---- MODULE Spec2Model ----
(***************************************************************************)
(* Account workflow of the flower-shop backend (src/signup.py): signup,    *)
(* OTP verification, OTP resend, login, listing, update and delete over    *)
(* the two JSON documents users.json and otps.json.                        *)
(*                                                                         *)
(* Strings are sequences of one-character strings, so that the validation  *)
(* helpers (regular expressions, strip, len) are computed on the text.     *)
(* Time is counted in ticks of 1/TicksPerSec second, since time.time()     *)
(* is a float and int() truncates the fraction.                            *)
(***************************************************************************)
EXTENDS Integers, Sequences, FiniteSets, TLC

\* ---------------------------------------------------------------- bounds
NumCodes == 2      \* how many distinct codes generate_otp is allowed to draw
MaxOps == 4        \* how many requests and clock advances one behaviour holds
TicksPerSec == 2   \* clock resolution: ticks per second
MaxRequests == 3   \* requests started when requests are served in steps

\* ------------------------------------------------------ program constants
RESEND_WAIT == 300
OTP_LEN == 6
MIN_PASSWORD_LEN == 8

\* ------------------------------------------------------------- characters
UpperChars ==
    {"A","B","C","D","E","F","G","H","I","J","K","L","M",
     "N","O","P","Q","R","S","T","U","V","W","X","Y","Z"}
LowerChars ==
    {"a","b","c","d","e","f","g","h","i","j","k","l","m",
     "n","o","p","q","r","s","t","u","v","w","x","y","z"}
DigitChars == {"0","1","2","3","4","5","6","7","8","9"}
SpaceChars == {" ", "\t", "\n", "\r"}
WordChars == UpperChars \cup LowerChars \cup DigitChars \cup {"_"}

\* str.strip(): drop leading and trailing whitespace
RECURSIVE LStrip(_)
LStrip(s) ==
    IF s = <<>> THEN <<>>
    ELSE IF Head(s) \in SpaceChars THEN LStrip(Tail(s)) ELSE s

RECURSIVE RStrip(_)
RStrip(s) ==
    IF s = <<>> THEN <<>>
    ELSE IF s[Len(s)] \in SpaceChars THEN RStrip(SubSeq(s, 1, Len(s) - 1)) ELSE s

Strip(s) == RStrip(LStrip(s))

\* re.match(r"^[\w\.-]+@[\w\.-]+\.\w+$", email)
is_valid_email(email) ==
    LET n == IF Len(email) > 0 /\ email[Len(email)] = "\n"
             THEN Len(email) - 1 ELSE Len(email)
        part == WordChars \cup {".", "-"}
    IN \E i \in 2..n : \E j \in (i + 2)..(n - 1) :
          /\ email[i] = "@"
          /\ email[j] = "."
          /\ \A k \in 1..(i - 1) : email[k] \in part
          /\ \A k \in (i + 1)..(j - 1) : email[k] \in part
          /\ \A k \in (j + 1)..n : email[k] \in WordChars

is_strong_password(password) ==
    /\ Len(password) >= MIN_PASSWORD_LEN
    /\ \E k \in 1..Len(password) : password[k] \in UpperChars
    /\ \E k \in 1..Len(password) : password[k] \in LowerChars
    /\ \E k \in 1..Len(password) : password[k] \in DigitChars

\* ------------------------------------------------------------------ OTPs
RECURSIVE Digits(_, _)
Digits(n, k) ==
    IF k = 0 THEN <<>>
    ELSE Append(Digits(n \div 10, k - 1),
                CHOOSE c \in DigitChars :
                   c = <<"0","1","2","3","4","5","6","7","8","9">>[(n % 10) + 1])

\* ''.join(random.choices("0123456789", k=6)): the draws the model allows
generate_otp == { Digits(n, OTP_LEN) : n \in 0..(NumCodes - 1) }

NoOtp == <<>>

\* ---------------------------------------------------------------- inputs
EmailJane == <<"j","@","x",".","i","o">>
EmailBob == <<"b","@","x",".","i","o">>
EmailBad == <<"n","o","t","-","a","n","-","e","m","a","i","l">>
Emails == {EmailJane, EmailBob}
SignupEmails == Emails \cup {EmailBad}

NameJane == <<"J","a","n","e">>
NameDoe == <<"D","o","e">>
NameBlank == <<" ">>
NameNew == <<"J","D">>
NoName == <<>>

PwGood == <<"P","a","s","s","w","0","r","d","!">>
PwOther == <<"S","e","c","r","e","t","9","9">>
PwWeak == <<"p","a","s","s","w","o","r","d">>
PwShort == <<"A","b","1">>
PwBlank == <<" "," "," "," "," "," "," "," ">>
PwEmpty == <<>>
NoPassword == <<>>

SignupRequest(email, first_name, last_name, password) ==
    [email |-> email, first_name |-> first_name, last_name |-> last_name,
     password |-> password]

\* the requests that pass every check, and requests that fail one check each
SignupRequests ==
    { SignupRequest(e, NameJane, NameDoe, p) : e \in Emails, p \in {PwGood, PwOther} }
    \cup { SignupRequest(EmailBad, NameJane, NameDoe, PwGood),
           SignupRequest(EmailJane, NameBlank, NameDoe, PwGood),
           SignupRequest(EmailJane, NameJane, NoName, PwGood),
           SignupRequest(EmailJane, NameJane, NameDoe, PwWeak),
           SignupRequest(EmailJane, NameJane, NameDoe, PwShort),
           SignupRequest(EmailBad, NameBlank, NoName, PwShort) }
LoginPasswords == {PwGood, PwOther, PwShort, PwBlank, PwEmpty}
UpdateNames == {NameNew}
UpdatePasswords == {PwOther, PwShort}
VerifyOtps == generate_otp \cup {<<"0">>}

\* ----------------------------------------------------------------- state
VARIABLES
    users_file, \* users.json: whether it parses (ok) and the mapping
                \* email -> user object written in it (data)
    otps_file,  \* otps.json: likewise, email -> [otp, timestamp]
    now,        \* time.time(), in ticks
    nops,       \* how many requests and clock advances happened
    next_id,    \* the next identifier uuid4 returns
    issued,     \* history, per email: the code last returned (otp), by which
                \* operation (by), at what time (at), the stored code it
                \* replaced (prev), how many verify_otp calls presented it since
                \* (uses), the password of the last successful signup
                \* (password), and whether delete_user ever removed the record
                \* (deleted)
    last,       \* the last request and its response
    procs       \* the requests being served step by step, per worker: the
                \* handler (op) and where it stands (pc), its arguments, the
                \* mappings it loaded (users, otps), its response (status) and
                \* whether the worker died before responding (crashed)

vars == <<users_file, otps_file, now, nops, next_id, issued, last, procs>>

Has(store, email) == email \in DOMAIN store

\* an assignment that does not replace an entry that is already there
PutIfAbsent(store, email, value) ==
    [e \in DOMAIN store \cup {email} |-> IF e \in DOMAIN store THEN store[e] ELSE value]

Put(store, email, value) ==
    [e \in DOMAIN store \cup {email} |-> IF e = email THEN value ELSE store[e]]

\* a delete that leaves the entry in the mapping
DelKeeps(store, email) == store

Del(store, email) == [e \in DOMAIN store \ {email} |-> store[e]]

EmptyStore == [e \in {} |-> {}]

\* json.load of the document, {} on JSONDecodeError
\* a load_data that returns whatever the file held, parseable or not
load_data_unchecked(file) == file.data

load_data(file) == IF file.ok THEN file.data ELSE EmptyStore

\* json.dump of the whole mapping over the document
save_data(data) == [ok |-> TRUE, data |-> data]

\* the mappings a handler works on after load_data(USERS_FILE), load_data(OTPS_FILE)
users == load_data(users_file)

otps == load_data(otps_file)

\* the workers that serve requests side by side
Procs == {1, 2}

Idle ==
    [pc |-> "idle", op |-> "none", email |-> EmailBad, password |-> NoPassword,
     otp |-> NoOtp, users |-> EmptyStore, otps |-> EmptyStore, status |-> 0,
     crashed |-> FALSE]

Reply(op, email, status) ==
    [op |-> op, email |-> email, status |-> status, otp |-> NoOtp,
     first_name |-> NoName, last_name |-> NoName, password |-> NoPassword,
     elapsed |-> 0 - 1, remaining |-> 0 - 1, name |-> NoName, listing |-> {}]

Issue(by, email, otp, password) ==
    [issued EXCEPT ![email] =
        [otp |-> otp, by |-> by, at |-> now, uses |-> 0, password |-> password,
         prev |-> IF Has(otps, email) THEN otps[email].otp ELSE NoOtp,
         deleted |-> issued[email].deleted]]

Deleted(email) == [issued EXCEPT ![email].deleted = TRUE]

\* the code presented to verify_otp is counted against the code last issued
Present(email, otp) ==
    IF issued[email].otp = otp /\ otp # NoOtp /\ issued[email].uses < 2
    THEN [issued EXCEPT ![email].uses = @ + 1]
    ELSE issued

Init ==
    /\ users_file = save_data(EmptyStore)
    /\ otps_file = save_data(EmptyStore)
    /\ now = 0
    /\ nops = 0
    /\ next_id = 1
    /\ issued = [e \in SignupEmails |->
                  [otp |-> NoOtp, by |-> "none", at |-> 0, uses |-> 0,
                   password |-> NoPassword, prev |-> NoOtp, deleted |-> FALSE]]
    /\ last = Reply("start", EmailBad, 0)
    /\ procs = [p \in Procs |-> Idle]

\* ---------------------------------------------------------------- signup
\* a record that starts out verified
NewUserVerified(id, first_name, last_name, email, password) ==
    [id |-> id, first_name |-> first_name, last_name |-> last_name,
     email |-> email, password |-> password, verified |-> TRUE]

\* a record that stores the last name in both name fields
NewUserSwapped(id, first_name, last_name, email, password) ==
    [id |-> id, first_name |-> last_name, last_name |-> last_name,
     email |-> email, password |-> password, verified |-> FALSE]

NewUser(id, first_name, last_name, email, password) ==
    [id |-> id, first_name |-> first_name, last_name |-> last_name,
     email |-> email, password |-> password, verified |-> FALSE]

\* a conflict check with the flag test inverted
AlreadyVerifiedInverted(email) == Has(users, email) /\ ~users[email].verified

\* user.email in users and users[user.email].get("verified", False)
AlreadyVerified(email) == Has(users, email) /\ users[email].verified

signup(email, first_name, last_name, password) ==
    LET SignupReply(status) ==
          [Reply("signup", email, status)
             EXCEPT !.first_name = first_name, !.last_name = last_name,
                    !.password = password]
    IN
    IF Len(password) < MIN_PASSWORD_LEN
    THEN \* UserCreate.password: Field(min_length=8)
         /\ last' = SignupReply(422)
         /\ UNCHANGED <<users_file, otps_file, now, next_id, issued>>
    ELSE IF ~is_valid_email(email)
    THEN /\ last' = SignupReply(400)
         /\ UNCHANGED <<users_file, otps_file, now, next_id, issued>>
    ELSE IF Strip(first_name) = <<>> \/ Strip(last_name) = <<>>
    THEN /\ last' = SignupReply(400)
         /\ UNCHANGED <<users_file, otps_file, now, next_id, issued>>
    ELSE IF ~is_strong_password(password)
    THEN /\ last' = SignupReply(400)
         /\ UNCHANGED <<users_file, otps_file, now, next_id, issued>>
    ELSE IF AlreadyVerified(email)
    THEN /\ last' = SignupReply(400)
         /\ UNCHANGED <<users_file, otps_file, now, next_id, issued>>
    ELSE /\ \E otp \in generate_otp :
              /\ users_file' = save_data(Put(users, email,
                     NewUser(next_id, first_name, last_name, email, password)))
              /\ otps_file' = save_data(Put(otps, email,
                     [otp |-> otp, timestamp |-> now]))
              /\ issued' = Issue("signup", email, otp, password)
              /\ last' = [SignupReply(200) EXCEPT !.otp = otp]
         /\ next_id' = next_id + 1
         /\ UNCHANGED now

\* ------------------------------------------------------------ verify_otp
SetVerified(user) == [user EXCEPT !.verified = TRUE]

\* a comparison of the codes as numbers: leading zeros do not count
RECURSIVE DropZeros(_)
DropZeros(s) ==
    IF s = <<>> THEN <<>>
    ELSE IF Head(s) = "0" THEN DropZeros(Tail(s)) ELSE s

OtpDiffersAsNumber(stored, supplied) == DropZeros(stored) # DropZeros(supplied)

\* otps[data.email]["otp"] != data.otp
OtpDiffers(stored, supplied) == stored # supplied

\* a verify_otp that refuses when no user record exists for the email
verify_otp_requires_user(email, otp) ==
    /\ issued' = Present(email, otp)
    /\ IF ~Has(otps, email) \/ ~Has(users, email)
       THEN /\ last' = [Reply("verify_otp", email, 404) EXCEPT !.otp = otp]
            /\ UNCHANGED <<users_file, otps_file>>
       ELSE IF OtpDiffers(otps[email].otp, otp)
       THEN /\ last' = [Reply("verify_otp", email, 400) EXCEPT !.otp = otp]
            /\ UNCHANGED <<users_file, otps_file>>
       ELSE /\ users_file' = save_data(Put(users, email, SetVerified(users[email])))
            /\ otps_file' = save_data(Del(otps, email))
            /\ last' = [Reply("verify_otp", email, 200) EXCEPT !.otp = otp]
    /\ UNCHANGED <<now, next_id>>

verify_otp(email, otp) ==
    /\ issued' = Present(email, otp)
    /\ IF ~Has(otps, email)
       THEN /\ last' = [Reply("verify_otp", email, 404) EXCEPT !.otp = otp]
            /\ UNCHANGED <<users_file, otps_file>>
       ELSE IF OtpDiffers(otps[email].otp, otp)
       THEN /\ last' = [Reply("verify_otp", email, 400) EXCEPT !.otp = otp]
            /\ UNCHANGED <<users_file, otps_file>>
       ELSE /\ IF Has(users, email)
               THEN users_file' = save_data(Put(users, email, SetVerified(users[email])))
               ELSE UNCHANGED users_file
            /\ otps_file' = save_data(Del(otps, email))
            /\ last' = [Reply("verify_otp", email, 200) EXCEPT !.otp = otp]
    /\ UNCHANGED <<now, next_id>>

\* ------------------------------------------------------------ resend_otp
\* the remaining wait rounded up instead of truncated
RemainingCeil(elapsed) ==
    (RESEND_WAIT * TicksPerSec - elapsed + TicksPerSec - 1) \div TicksPerSec

\* int(300 - elapsed), elapsed in ticks
Remaining(elapsed) == (RESEND_WAIT * TicksPerSec - elapsed) \div TicksPerSec

\* a rate limit that still refuses at exactly 300 seconds
TooSoonInclusive(elapsed) == elapsed <= RESEND_WAIT * TicksPerSec

\* elapsed < 300, elapsed in ticks
TooSoon(elapsed) == elapsed < RESEND_WAIT * TicksPerSec

resend_otp(email) ==
    /\ IF ~Has(otps, email)
       THEN /\ last' = Reply("resend_otp", email, 404)
            /\ UNCHANGED <<otps_file, issued>>
       ELSE LET elapsed == now - otps[email].timestamp IN
            IF TooSoon(elapsed)
            THEN /\ last' = [Reply("resend_otp", email, 403)
                               EXCEPT !.elapsed = elapsed,
                                      !.remaining = Remaining(elapsed)]
                 /\ UNCHANGED <<otps_file, issued>>
            ELSE \E otp \in generate_otp :
                   /\ otps_file' = save_data(Put(otps, email,
                          [otp |-> otp, timestamp |-> now]))
                   /\ issued' = Issue("resend_otp", email, otp, issued[email].password)
                   /\ last' = [Reply("resend_otp", email, 200)
                                 EXCEPT !.otp = otp, !.elapsed = elapsed]
    /\ UNCHANGED <<users_file, now, next_id>>

\* ----------------------------------------------------------------- login
\* a login that compares the password before it looks at the verified flag
login_status_password_first(email, password) ==
    IF Len(password) < MIN_PASSWORD_LEN THEN 422
    ELSE IF Strip(password) = <<>> THEN 400
    ELSE IF ~Has(users, email) THEN 404
    ELSE IF users[email].password # password THEN 401
    ELSE IF ~users[email].verified THEN 403
    ELSE IF "name" \notin DOMAIN users[email] THEN 500
    ELSE 200

\* the status login answers with; 500 is the KeyError of user['name'] on a
\* record that has no "name" key (signup writes first_name and last_name)
login_status(email, password) ==
    IF Len(password) < MIN_PASSWORD_LEN THEN 422
    ELSE IF Strip(password) = <<>> THEN 400
    ELSE IF ~Has(users, email) THEN 404
    ELSE IF ~users[email].verified THEN 403
    ELSE IF users[email].password # password THEN 401
    ELSE IF "name" \notin DOMAIN users[email] THEN 500
    ELSE 200

login(email, password) ==
    /\ LET status == login_status(email, password) IN
       last' = [Reply("login", email, status)
                  EXCEPT !.password = password,
                         !.name = IF status = 200 THEN users[email].name ELSE NoName]
    /\ UNCHANGED <<users_file, otps_file, now, next_id, issued>>

\* --------------------------------------------------------------- listing
list_users ==
    /\ last' = [Reply("list_users", EmailBad, 200)
                  EXCEPT !.listing = {users[e] : e \in DOMAIN users}]
    /\ UNCHANGED <<users_file, otps_file, now, next_id, issued>>

get_verified_users ==
    /\ last' = [Reply("get_verified_users", EmailBad, 200)
                  EXCEPT !.listing = {users[e] : e \in {x \in DOMAIN users : users[x].verified}}]
    /\ UNCHANGED <<users_file, otps_file, now, next_id, issued>>

\* ----------------------------------------------------------- delete_user
\* a delete_user that also removes the pending challenge of the email
delete_user_purges_otp(email) ==
    /\ IF ~Has(users, email)
       THEN /\ last' = Reply("delete_user", email, 404)
            /\ UNCHANGED <<users_file, otps_file, issued>>
       ELSE /\ users_file' = save_data(Del(users, email))
            /\ otps_file' = save_data(Del(otps, email))
            /\ issued' = Deleted(email)
            /\ last' = Reply("delete_user", email, 200)
    /\ UNCHANGED <<now, next_id>>

delete_user(email) ==
    /\ IF ~Has(users, email)
       THEN /\ last' = Reply("delete_user", email, 404)
            /\ UNCHANGED <<users_file, issued>>
       ELSE /\ users_file' = save_data(Del(users, email))
            /\ issued' = Deleted(email)
            /\ last' = Reply("delete_user", email, 200)
    /\ UNCHANGED <<otps_file, now, next_id>>

\* ----------------------------------------------------------- update_user
\* an update that writes a fresh record, and so loses the verified flag
SetNamePasswordUnverified(user, name, password) ==
    [id |-> user.id, first_name |-> user.first_name, last_name |-> user.last_name,
     email |-> user.email, password |-> password, verified |-> FALSE,
     name |-> name]

SetNamePassword(user, name, password) ==
    [id |-> user.id, first_name |-> user.first_name, last_name |-> user.last_name,
     email |-> user.email, password |-> password, verified |-> user.verified,
     name |-> name]

\* an update_user that creates the record when the email is absent
update_user_upsert(email, name, password) ==
    /\ users_file' = save_data(Put(users, email,
           IF Has(users, email)
           THEN SetNamePassword(users[email], name, password)
           ELSE SetNamePassword(NewUser(0, NoName, NoName, email, password),
                                name, password)))
    /\ last' = [Reply("update_user", email, 200)
                  EXCEPT !.name = name, !.password = password]
    /\ UNCHANGED <<otps_file, now, next_id, issued>>

update_user(email, name, password) ==
    LET UpdateReply(status) ==
          [Reply("update_user", email, status)
             EXCEPT !.name = name, !.password = password]
    IN
    /\ IF ~Has(users, email)
       THEN /\ last' = UpdateReply(404)
            /\ UNCHANGED users_file
       ELSE /\ users_file' = save_data(Put(users, email,
                   SetNamePassword(users[email], name, password)))
            /\ last' = UpdateReply(200)
    /\ UNCHANGED <<otps_file, now, next_id, issued>>

\* ----------------------------------------------------------------- clock
Advances == {1, RESEND_WAIT * TicksPerSec - 1, RESEND_WAIT * TicksPerSec}

Tick ==
    /\ \E d \in Advances : now' = now + d
    /\ last' = Reply("tick", EmailBad, 0)
    /\ UNCHANGED <<users_file, otps_file, next_id, issued>>

\* ---------------------------------------------------------- specification
\* one request served from start to end while no other is in flight
Count ==
    /\ nops < MaxOps
    /\ nops' = nops + 1
    /\ UNCHANGED procs

Signup ==
    \E r \in SignupRequests :
         signup(r.email, r.first_name, r.last_name, r.password)

VerifyOtp == \E email \in Emails, otp \in VerifyOtps : verify_otp(email, otp)

ResendOtp == \E email \in Emails : resend_otp(email)

Login == \E email \in Emails, password \in LoginPasswords : login(email, password)

DeleteUser == \E email \in Emails : delete_user(email)

UpdateUser ==
    \E email \in Emails, name \in UpdateNames, password \in UpdatePasswords :
         update_user(email, name, password)

ListUsers == list_users

ListVerifiedUsers == get_verified_users

Next ==
    \/ Count /\ Signup
    \/ Count /\ VerifyOtp
    \/ Count /\ ResendOtp
    \/ Count /\ Login
    \/ Count /\ ListUsers
    \/ Count /\ ListVerifiedUsers
    \/ Count /\ DeleteUser
    \/ Count /\ UpdateUser
    \/ Count /\ Tick

Spec == Init /\ [][Next]_vars

TypeOK ==
    /\ DOMAIN users \subseteq Emails
    /\ DOMAIN otps \subseteq Emails
    /\ now \in Nat
    /\ next_id \in 1..(MaxOps + 1)
    /\ nops \in 0..MaxOps

\* ------------------------------------------------------------ properties
WaitTicks == RESEND_WAIT * TicksPerSec

\* C1: the code returned by the latest signup or resend_otp for an email
\* verifies exactly once: the first verify_otp that presents it answers 200,
\* leaves the user (if the record is there) verified and the challenge
\* deleted; the next verify_otp that presents it answers 404.
C1_VerifyExactlyOnce ==
    (/\ last.op = "verify_otp"
     /\ last.otp # NoOtp
     /\ last.otp = issued[last.email].otp)
    => /\ issued[last.email].uses = 1 =>
             /\ last.status = 200
             /\ ~Has(otps, last.email)
             /\ Has(users, last.email) => users[last.email].verified
       /\ issued[last.email].uses = 2 => last.status = 404

C1_Witness ==
    /\ last.op = "verify_otp"
    /\ last.otp = issued[last.email].otp
    /\ issued[last.email].uses = 2
    /\ last.status = 404
    /\ Has(users, last.email)
    /\ users[last.email].verified

\* C2: login of a verified user with the password given at signup answers
\* 200 with a welcome message that names the user, updated or not.
C2_LoginAfterVerify ==
    (/\ last.op = "login"
     /\ Has(users, last.email)
     /\ users[last.email].verified
     /\ issued[last.email].password # NoPassword
     /\ last.password = issued[last.email].password)
    => /\ last.status = 200
       /\ last.name # NoName

\* C3 as stated: login of an existing user with a non-blank password other
\* than the stored one answers 401, verified or not.
C3_WrongPasswordAlways401 ==
    (/\ last.op = "login"
     /\ Has(users, last.email)
     /\ Strip(last.password) # <<>>
     /\ last.password # users[last.email].password)
    => last.status = 401

\* C3 amended: login of an existing user with a password that differs from
\* the stored one and is not blank answers 422 when the password is shorter
\* than 8 characters, else 403 when the user is not verified, else 401.
C3_WrongPassword ==
    (/\ last.op = "login"
     /\ Has(users, last.email)
     /\ Strip(last.password) # <<>>
     /\ last.password # users[last.email].password)
    => last.status = IF Len(last.password) < MIN_PASSWORD_LEN THEN 422
                     ELSE IF users[last.email].verified THEN 401 ELSE 403

C3_Witness ==
    /\ last.op = "login"
    /\ Has(users, last.email)
    /\ users[last.email].verified
    /\ Strip(last.password) # <<>>
    /\ last.password # users[last.email].password
    /\ last.status = 401

\* C4: login reports the first failure that applies, in the order blank
\* password 400, no record 404, not verified 403, wrong password 401; it never
\* answers 200 for an absent or unverified user; it changes neither store.
C4_LoginOrder ==
    [][last'.op = "login" =>
         /\ UNCHANGED <<users, otps>>
         /\ Strip(last'.password) = <<>> => last'.status = 400
         /\ (Strip(last'.password) # <<>> /\ ~Has(users, last'.email))
               => last'.status = 404
         /\ (/\ Strip(last'.password) # <<>>
             /\ Has(users, last'.email)
             /\ ~users[last'.email].verified) => last'.status = 403
         /\ (/\ Strip(last'.password) # <<>>
             /\ Has(users, last'.email)
             /\ users[last'.email].verified
             /\ users[last'.email].password # last'.password) => last'.status = 401
         /\ last'.status = 200 =>
               Has(users, last'.email) /\ users[last'.email].verified]_vars

\* C5: verify_otp with a code other than the stored one answers 400 and
\* changes neither store, however often it is repeated.
C5_WrongCodeKeepsChallenge ==
    [][(/\ last'.op = "verify_otp"
        /\ Has(otps, last'.email)
        /\ last'.otp # otps[last'.email].otp)
       => /\ last'.status = 400
          /\ UNCHANGED <<users, otps>>]_vars

C5_Witness ==
    /\ last.op = "verify_otp"
    /\ last.status = 400
    /\ Has(otps, last.email)
    /\ last.otp # otps[last.email].otp
    /\ Len(last.otp) # OTP_LEN

\* C6 as stated: once a signup has replaced a pending challenge, the code
\* it replaced never verifies, whatever the two codes are.
C6_OldCodeNeverVerifies ==
    (/\ last.op = "verify_otp"
     /\ issued[last.email].by = "signup"
     /\ issued[last.email].prev # NoOtp
     /\ last.otp = issued[last.email].prev)
    => last.status # 200

\* C6 amended: once a signup has replaced a pending challenge by a different
\* code, the replaced code does not verify, and a verify_otp that answers 200
\* presented the code of the latest signup.
C6_OldCodeFailsWhenDifferent ==
    (/\ last.op = "verify_otp"
     /\ issued[last.email].by = "signup"
     /\ issued[last.email].prev # NoOtp)
    => /\ (/\ last.otp = issued[last.email].prev
           /\ issued[last.email].prev # issued[last.email].otp)
             => last.status \in {400, 404}
       /\ last.status = 200 => last.otp = issued[last.email].otp

C6_Witness ==
    /\ last.op = "verify_otp"
    /\ issued[last.email].by = "signup"
    /\ issued[last.email].prev # NoOtp
    /\ last.otp = issued[last.email].prev
    /\ issued[last.email].prev # issued[last.email].otp
    /\ last.status = 400
    /\ Has(users, last.email)
    /\ ~users[last.email].verified

\* C7 as stated: resend_otp less than 300 seconds after the challenge was
\* issued answers 403, changes neither store, and reports the remaining wait
\* 300 - elapsed rounded down, which is more than 0 and less than 300.
C7_RemainingStrictlyInside ==
    [][(/\ last'.op = "resend_otp"
        /\ Has(otps, last'.email)
        /\ now - otps[last'.email].timestamp >= 0
        /\ now - otps[last'.email].timestamp < WaitTicks)
       => /\ last'.status = 403
          /\ UNCHANGED <<users, otps>>
          /\ last'.remaining * TicksPerSec
                <= WaitTicks - (now - otps[last'.email].timestamp)
          /\ WaitTicks - (now - otps[last'.email].timestamp)
                < (last'.remaining + 1) * TicksPerSec
          /\ last'.remaining > 0
          /\ last'.remaining < RESEND_WAIT]_vars

\* C7 amended: resend_otp less than 300 seconds after the challenge was
\* issued answers 403, changes neither store, and reports the remaining wait
\* 300 - elapsed rounded down, which lies between 0 and 300 inclusive (0 when
\* less than a second remains, 300 when no time has passed).
C7_RemainingRoundedDown ==
    [][(/\ last'.op = "resend_otp"
        /\ Has(otps, last'.email)
        /\ now - otps[last'.email].timestamp >= 0
        /\ now - otps[last'.email].timestamp < WaitTicks)
       => /\ last'.status = 403
          /\ UNCHANGED <<users, otps>>
          /\ last'.remaining * TicksPerSec
                <= WaitTicks - (now - otps[last'.email].timestamp)
          /\ WaitTicks - (now - otps[last'.email].timestamp)
                < (last'.remaining + 1) * TicksPerSec
          /\ last'.remaining >= 0
          /\ last'.remaining <= RESEND_WAIT]_vars

C7_Witness ==
    /\ last.op = "resend_otp"
    /\ last.status = 403
    /\ last.elapsed > 0
    /\ last.elapsed % TicksPerSec # 0
    /\ last.remaining > 0
    /\ last.remaining < RESEND_WAIT
    /\ Has(otps, last.email)
    /\ now - otps[last.email].timestamp = last.elapsed

\* C8 as stated: resend_otp 300 seconds or more after the challenge was issued
\* answers 200, stores the returned code with the current time as timestamp,
\* the returned code differs from the one it replaces, and the replaced code
\* no longer verifies.
C8_ResendIssuesDifferentCode ==
    [][/\ (/\ last'.op = "resend_otp"
           /\ Has(otps, last'.email)
           /\ now - otps[last'.email].timestamp >= WaitTicks)
          => /\ last'.status = 200
             /\ Has(otps', last'.email)
             /\ otps'[last'.email].timestamp = now
             /\ otps'[last'.email].otp = last'.otp
             /\ last'.otp # otps[last'.email].otp
       /\ (/\ last'.op = "verify_otp"
           /\ issued[last'.email].by = "resend_otp"
           /\ last'.otp = issued[last'.email].prev)
          => last'.status # 200]_vars

\* C8 amended: resend_otp 300 seconds or more after the challenge was issued
\* answers 200 and stores the returned code with the current time as
\* timestamp; the returned code may equal the one it replaces, and the
\* replaced code no longer verifies when the two differ.
C8_ResendOverwrites ==
    [][/\ (/\ last'.op = "resend_otp"
           /\ Has(otps, last'.email)
           /\ now - otps[last'.email].timestamp >= WaitTicks)
          => /\ last'.status = 200
             /\ Has(otps', last'.email)
             /\ otps'[last'.email].timestamp = now
             /\ otps'[last'.email].otp = last'.otp
             /\ last'.otp \in generate_otp
             /\ UNCHANGED users
       /\ (/\ last'.op = "verify_otp"
           /\ issued[last'.email].by = "resend_otp"
           /\ last'.otp = issued[last'.email].prev
           /\ issued[last'.email].prev # issued[last'.email].otp)
          => last'.status \in {400, 404}]_vars

C8_Witness ==
    /\ last.op = "resend_otp"
    /\ last.status = 200
    /\ last.elapsed = WaitTicks
    /\ Has(otps, last.email)
    /\ otps[last.email].timestamp = now
    /\ otps[last.email].otp = last.otp
    /\ issued[last.email].prev # last.otp

\* C9: signup for an email whose record is verified is rejected (400 for a
\* request that passes the schema) and changes neither store.
C9_VerifiedSignupRejected ==
    [][(/\ last'.op = "signup"
        /\ Has(users, last'.email)
        /\ users[last'.email].verified)
       => /\ last'.status =
               IF Len(last'.password) < MIN_PASSWORD_LEN THEN 422 ELSE 400
          /\ UNCHANGED <<users, otps>>]_vars

C9_Witness ==
    /\ last.op = "signup"
    /\ last.status = 400
    /\ Has(users, last.email)
    /\ users[last.email].verified
    /\ ~Has(otps, last.email)

\* C10: a signup that answers 200 had valid fields and an email that was
\* absent or unverified; afterwards the record of that email is unverified
\* and holds the names and password supplied, its challenge holds the
\* returned code and the current time, and the records and challenges of all
\* other emails are as before.
C10_SignupEffect ==
    [][(last'.op = "signup" /\ last'.status = 200)
       => LET email == last'.email IN
          /\ is_valid_email(email)
          /\ Strip(last'.first_name) # <<>>
          /\ Strip(last'.last_name) # <<>>
          /\ is_strong_password(last'.password)
          /\ Has(users, email) => ~users[email].verified
          /\ DOMAIN users' = DOMAIN users \cup {email}
          /\ users'[email].verified = FALSE
          /\ users'[email].first_name = last'.first_name
          /\ users'[email].last_name = last'.last_name
          /\ users'[email].password = last'.password
          /\ users'[email].email = email
          /\ DOMAIN otps' = DOMAIN otps \cup {email}
          /\ otps'[email].timestamp = now
          /\ otps'[email].otp = last'.otp
          /\ last'.otp \in generate_otp
          /\ \A other \in DOMAIN users \ {email} : users'[other] = users[other]
          /\ \A other \in DOMAIN otps \ {email} : otps'[other] = otps[other]]_vars

C10_Witness ==
    /\ last.op = "signup"
    /\ last.status = 200
    /\ issued[last.email].prev # NoOtp
    /\ Cardinality(DOMAIN users) = 2
    /\ Cardinality(DOMAIN otps) = 2
    /\ ~users[last.email].verified
    /\ otps[last.email].otp = last.otp

\* C11: delete_user answers 404 and changes nothing when the email has no
\* record; otherwise it removes that record and no other, and a login for
\* that email that follows with a password that is not blank answers 404.
C11_DeleteThenLoginNotFound ==
    [][/\ (last'.op = "delete_user" /\ ~Has(users, last'.email))
          => /\ last'.status = 404
             /\ UNCHANGED <<users_file, otps_file>>
       /\ (last'.op = "delete_user" /\ Has(users, last'.email))
          => /\ last'.status = 200
             /\ DOMAIN users' = DOMAIN users \ {last'.email}
             /\ \A other \in DOMAIN users' : users'[other] = users[other]
             /\ UNCHANGED otps_file
       /\ (/\ last.op = "delete_user"
           /\ last.status = 200
           /\ last'.op = "login"
           /\ last'.email = last.email
           /\ Strip(last'.password) # <<>>)
          => last'.status = 404]_vars

\* C12 as stated: once delete_user has removed the record of an email, no
\* record for that email exists again.
C12_DeletedIsTerminal ==
    \A e \in Emails : issued[e].deleted => ~Has(users, e)

\* C12 amended: delete_user leaves no record for the email, and afterwards a
\* record for it appears again only by a signup for that email that answers
\* 200, which stores a new unverified record.
C12_OnlySignupRecreates ==
    [][\A e \in Emails :
         /\ (last'.op = "delete_user" /\ last'.email = e /\ last'.status = 200)
            => ~Has(users', e)
         /\ (issued[e].deleted /\ ~Has(users, e) /\ Has(users', e))
            => /\ last'.op = "signup"
               /\ last'.email = e
               /\ last'.status = 200
               /\ ~users'[e].verified]_vars

C12_Witness ==
    /\ last.op = "signup"
    /\ last.status = 200
    /\ issued[last.email].deleted
    /\ Has(users, last.email)
    /\ ~users[last.email].verified

\* C13: delete_user leaves otps.json alone, so a challenge can outlive its
\* record; verify_otp with the code of such a challenge answers 200, deletes
\* the challenge, creates no record and does not write users.json.
C13_VerifyWithoutUser ==
    [][/\ last'.op = "delete_user" => UNCHANGED otps_file
       /\ (/\ last'.op = "verify_otp"
           /\ Has(otps, last'.email)
           /\ last'.otp = otps[last'.email].otp
           /\ ~Has(users, last'.email))
          => /\ last'.status = 200
             /\ ~Has(otps', last'.email)
             /\ UNCHANGED users_file]_vars

C13_Witness ==
    /\ last.op = "verify_otp"
    /\ last.status = 200
    /\ issued[last.email].deleted
    /\ ~Has(users, last.email)
    /\ ~Has(otps, last.email)

\* C14: update_user answers 404 and changes nothing when the email has no
\* record; otherwise it stores the name and password supplied, whatever the
\* password, keeps id, email and verified flag, leaves the other records and
\* otps.json alone; a login of a verified user that follows answers 200 with
\* the new password and 401 with the signup password it replaced.
C14_UpdateThenLogin ==
    [][/\ (/\ last.op = "update_user"
           /\ last.status = 200
           /\ last'.op = "login"
           /\ last'.email = last.email
           /\ users[last.email].verified)
          => /\ last'.password = last.password => last'.status = 200
             /\ (/\ last'.password = issued[last.email].password
                 /\ last'.password # last.password) => last'.status = 401
       /\ last'.op = "update_user" =>
         LET email == last'.email IN
         IF ~Has(users, email)
         THEN /\ last'.status = 404
              /\ UNCHANGED <<users_file, otps_file>>
         ELSE /\ last'.status = 200
              /\ DOMAIN users' = DOMAIN users
              /\ users'[email].name = last'.name
              /\ users'[email].password = last'.password
              /\ users'[email].id = users[email].id
              /\ users'[email].email = users[email].email
              /\ users'[email].verified = users[email].verified
              /\ \A other \in DOMAIN users \ {email} : users'[other] = users[other]
              /\ UNCHANGED otps_file]_vars

\* C17: a challenge appears or changes only by a signup or resend_otp for its
\* email that answers 200, and disappears only by a verify_otp for its email
\* that answers 200; every other operation, every operation that does not
\* answer 200 and the passing of time leave otps.json as it is, and the stored
\* code verifies whatever its age.
C17_ChallengeLifecycle ==
    [][/\ \A e \in Emails :
            /\ (Has(otps', e) /\ (Has(otps, e) => otps'[e] # otps[e]))
               => /\ last'.op \in {"signup", "resend_otp"}
                  /\ last'.email = e
                  /\ last'.status = 200
            /\ (Has(otps, e) /\ ~Has(otps', e))
               => /\ last'.op = "verify_otp"
                  /\ last'.email = e
                  /\ last'.status = 200
       /\ (\/ last'.status # 200
           \/ last'.op \in {"login", "list_users", "get_verified_users",
                            "update_user", "delete_user", "tick"})
          => UNCHANGED otps_file
       /\ (/\ last'.op = "verify_otp"
           /\ Has(otps, last'.email)
           /\ last'.otp = otps[last'.email].otp)
          => last'.status = 200]_vars

C17_Witness ==
    /\ last.op = "verify_otp"
    /\ last.status = 200
    /\ last.otp = issued[last.email].otp
    /\ now - issued[last.email].at >= WaitTicks
    /\ ~Has(otps, last.email)

\* C19: a record becomes verified only by a verify_otp for its email that
\* answers 200 and presented the stored code; a verified record stays
\* verified and keeps its id for as long as it exists, and it ceases to exist
\* only by delete_user.
C19_VerifiedMonotone ==
    [][\A e \in Emails :
         /\ (/\ Has(users', e)
             /\ users'[e].verified
             /\ ~(Has(users, e) /\ users[e].verified))
            => /\ last'.op = "verify_otp"
               /\ last'.email = e
               /\ last'.status = 200
               /\ Has(users, e)
               /\ Has(otps, e)
               /\ last'.otp = otps[e].otp
         /\ (Has(users, e) /\ users[e].verified)
            => /\ Has(users', e)
                  => /\ users'[e].verified
                     /\ users'[e].id = users[e].id
               /\ ~Has(users', e)
                  => /\ last'.op = "delete_user"
                     /\ last'.email = e]_vars

C19_Witness ==
    /\ last.op = "update_user"
    /\ last.status = 200
    /\ Has(users, last.email)
    /\ users[last.email].verified
    /\ users[last.email].password = last.password

\* C20: no verified record has a challenge, so resend_otp and verify_otp for
\* an email whose record is verified answer 404.
C20_VerifiedHasNoChallenge ==
    [][/\ \A e \in Emails :
            (Has(users', e) /\ users'[e].verified) => ~Has(otps', e)
       /\ (/\ last'.op \in {"verify_otp", "resend_otp"}
           /\ Has(users, last'.email)
           /\ users[last'.email].verified)
          => last'.status = 404]_vars

C20_Witness ==
    /\ last.op = "resend_otp"
    /\ last.status = 404
    /\ Has(users, last.email)
    /\ users[last.email].verified

\* ------------------------------------------------- unparseable documents
\* The content of a document stops being valid JSON (a torn write, an edit by
\* hand); .data keeps what the document held, which json.load can no longer
\* return.
CorruptUsers ==
    /\ users_file.ok
    /\ users_file' = [users_file EXCEPT !.ok = FALSE]
    /\ last' = Reply("corrupt_users", EmailBad, 0)
    /\ UNCHANGED <<otps_file, now, next_id, issued>>

CorruptOtps ==
    /\ otps_file.ok
    /\ otps_file' = [otps_file EXCEPT !.ok = FALSE]
    /\ last' = Reply("corrupt_otps", EmailBad, 0)
    /\ UNCHANGED <<users_file, now, next_id, issued>>

NextCorrupt ==
    \/ Count /\ Signup
    \/ Count /\ VerifyOtp
    \/ Count /\ ResendOtp
    \/ Count /\ Login
    \/ Count /\ ListUsers
    \/ Count /\ ListVerifiedUsers
    \/ Count /\ DeleteUser
    \/ Count /\ UpdateUser
    \/ Count /\ Tick
    \/ Count /\ CorruptUsers
    \/ Count /\ CorruptOtps

SpecCorrupt == Init /\ [][NextCorrupt]_vars

\* C18: an unparseable document is read as the empty mapping.  While
\* users.json is unparseable, login answers 404 for every email (after the
\* password checks that precede the lookup), update_user and delete_user
\* answer 404 and write nothing, a well-formed signup answers 200 whatever
\* the document held, and the only write to the document is that signup's,
\* which leaves it holding the new record alone.  While otps.json is
\* unparseable, verify_otp and resend_otp answer 404 and the only write is a
\* signup's, which leaves it holding the new challenge alone.
C18_CorruptReadAsEmpty ==
    [][/\ ~users_file.ok =>
            /\ last'.op = "login"
               => /\ last'.status \in {422, 400, 404}
                  /\ (/\ Len(last'.password) >= MIN_PASSWORD_LEN
                      /\ Strip(last'.password) # <<>>)
                     => last'.status = 404
            /\ last'.op \in {"update_user", "delete_user"}
               => /\ last'.status = 404
                  /\ UNCHANGED users_file
            /\ (/\ last'.op = "signup"
                /\ Len(last'.password) >= MIN_PASSWORD_LEN
                /\ is_valid_email(last'.email)
                /\ Strip(last'.first_name) # <<>>
                /\ Strip(last'.last_name) # <<>>
                /\ is_strong_password(last'.password))
               => last'.status = 200
            /\ users_file' # users_file
               => /\ last'.op = "signup"
                  /\ last'.status = 200
                  /\ users_file'.ok
                  /\ DOMAIN users_file'.data = {last'.email}
                  /\ users_file'.data[last'.email] =
                       NewUser(next_id, last'.first_name, last'.last_name,
                               last'.email, last'.password)
       /\ ~otps_file.ok =>
            /\ last'.op \in {"verify_otp", "resend_otp"}
               => /\ last'.status = 404
                  /\ UNCHANGED otps_file
            /\ otps_file' # otps_file
               => /\ last'.op = "signup"
                  /\ last'.status = 200
                  /\ otps_file'.ok
                  /\ DOMAIN otps_file'.data = {last'.email}
                  /\ otps_file'.data[last'.email].otp = last'.otp]_vars

C18_Witness ==
    /\ ~users_file.ok
    /\ last.op = "login"
    /\ last.status = 404
    /\ Has(users_file.data, last.email)
    /\ users_file.data[last.email].verified
    /\ users_file.data[last.email].password = last.password

\* ---------------------------------------------- requests served in steps
\* The framework serves requests side by side, and a handler is a sequence
\* of file reads and writes: each read and each write is a step of its own,
\* with the mappings the handler loaded kept in the worker's record.
ConcPasswords == {PwGood}

Working(p) == procs[p].pc \notin {"idle", "done"} /\ ~procs[p].crashed

Free(p) == procs[p].pc \in {"idle", "done"} /\ ~procs[p].crashed

At(p, op, pc) == procs[p].op = op /\ procs[p].pc = pc /\ ~procs[p].crashed

\* a request arrives and the first free worker takes it
Begin(p, op, pc, email, password, otp) ==
    /\ Free(p)
    /\ \A q \in Procs : q < p => ~Free(q)
    /\ nops < MaxRequests
    /\ nops' = nops + 1
    /\ procs' = [procs EXCEPT ![p] =
           [Idle EXCEPT !.pc = pc, !.op = op, !.email = email,
                        !.password = password, !.otp = otp]]
    /\ UNCHANGED <<users_file, otps_file, now, next_id, issued, last>>

\* signup, lines 204-215: the request passed the schema and the validation
StartSignup(p) ==
    \E email \in Emails, password \in ConcPasswords :
         /\ Len(password) >= MIN_PASSWORD_LEN
         /\ is_valid_email(email)
         /\ Strip(NameJane) # <<>> /\ Strip(NameDoe) # <<>>
         /\ is_strong_password(password)
         /\ Begin(p, "signup", "load_users", email, password, NoOtp)

StartVerifyOtp(p) ==
    \E email \in Emails, otp \in generate_otp :
         Begin(p, "verify_otp", "load_otps", email, NoPassword, otp)

StartDeleteUser(p) ==
    \E email \in Emails :
         Begin(p, "delete_user", "load_users", email, NoPassword, NoOtp)

\* a worker's step that touches no file
Local(p, rec) ==
    /\ procs' = [procs EXCEPT ![p] = rec]
    /\ UNCHANGED <<users_file, otps_file, now, nops, next_id, issued, last>>

\* the handler returns: the mappings it loaded are gone
Respond(p, status) ==
    [procs[p] EXCEPT !.pc = "done", !.status = status,
                     !.users = EmptyStore, !.otps = EmptyStore]

\* signup, line 217
signup_load_users(p) ==
    /\ At(p, "signup", "load_users")
    /\ Local(p, [procs[p] EXCEPT !.pc = "load_otps", !.users = users])

\* signup, lines 218-228: the conflict check on the mapping it loaded
signup_load_otps(p) ==
    /\ At(p, "signup", "load_otps")
    /\ LET mine == procs[p].users
           email == procs[p].email
       IN IF Has(mine, email) /\ mine[email].verified
          THEN Local(p, Respond(p, 400))
          ELSE Local(p, [procs[p] EXCEPT !.pc = "save_users", !.otps = otps])

\* a signup that reads users.json again just before it writes it
signup_save_users_merging(p) ==
    /\ At(p, "signup", "save_users")
    /\ LET email == procs[p].email
           mine == Put(users, email,
                       NewUser(next_id, NameJane, NameDoe, email, procs[p].password))
       IN /\ users_file' = save_data(mine)
          /\ procs' = [procs EXCEPT ![p] =
                 [procs[p] EXCEPT !.pc = "save_otps", !.users = EmptyStore]]
    /\ next_id' = next_id + 1
    /\ UNCHANGED <<otps_file, now, nops, issued, last>>

\* signup, lines 231-239
signup_save_users(p) ==
    /\ At(p, "signup", "save_users")
    /\ LET email == procs[p].email
           mine == Put(procs[p].users, email,
                       NewUser(next_id, NameJane, NameDoe, email, procs[p].password))
       IN /\ users_file' = save_data(mine)
          /\ procs' = [procs EXCEPT ![p] =
                 [procs[p] EXCEPT !.pc = "save_otps", !.users = EmptyStore]]
    /\ next_id' = next_id + 1
    /\ UNCHANGED <<otps_file, now, nops, issued, last>>

\* signup, lines 242-255
signup_save_otps(p) ==
    /\ At(p, "signup", "save_otps")
    /\ \E otp \in generate_otp :
         LET mine == Put(procs[p].otps, procs[p].email,
                         [otp |-> otp, timestamp |-> now])
         IN /\ otps_file' = save_data(mine)
            /\ procs' = [procs EXCEPT ![p] =
                   [Respond(p, 200) EXCEPT !.otp = otp]]
    /\ UNCHANGED <<users_file, now, nops, next_id, issued, last>>

\* verify_otp, lines 287-293
verify_otp_load_otps(p) ==
    /\ At(p, "verify_otp", "load_otps")
    /\ LET email == procs[p].email IN
       IF ~Has(otps, email)
       THEN Local(p, Respond(p, 404))
       ELSE IF OtpDiffers(otps[email].otp, procs[p].otp)
       THEN Local(p, Respond(p, 400))
       ELSE Local(p, [procs[p] EXCEPT !.pc = "load_users", !.otps = otps])

\* verify_otp, line 296
verify_otp_load_users(p) ==
    /\ At(p, "verify_otp", "load_users")
    /\ Local(p, [procs[p] EXCEPT !.pc = "save_users", !.users = users])

\* a verify_otp that writes both documents at once
verify_otp_save_both(p) ==
    /\ At(p, "verify_otp", "save_users")
    /\ LET email == procs[p].email
           mine == procs[p].users
       IN /\ IF Has(mine, email)
             THEN users_file' = save_data(Put(mine, email, SetVerified(mine[email])))
             ELSE UNCHANGED users_file
          /\ otps_file' = save_data(Del(procs[p].otps, email))
          /\ procs' = [procs EXCEPT ![p] = Respond(p, 200)]
    /\ UNCHANGED <<now, nops, next_id, issued, last>>

\* verify_otp, lines 297-299
verify_otp_save_users(p) ==
    /\ At(p, "verify_otp", "save_users")
    /\ LET email == procs[p].email
           mine == procs[p].users
       IN IF Has(mine, email)
          THEN LET marked == Put(mine, email, SetVerified(mine[email])) IN
               /\ users_file' = save_data(marked)
               /\ procs' = [procs EXCEPT ![p] =
                      [procs[p] EXCEPT !.pc = "save_otps", !.users = EmptyStore]]
          ELSE /\ UNCHANGED users_file
               /\ procs' = [procs EXCEPT ![p] =
                      [procs[p] EXCEPT !.pc = "save_otps", !.users = EmptyStore]]
    /\ UNCHANGED <<otps_file, now, nops, next_id, issued, last>>

\* verify_otp, lines 302-305
verify_otp_save_otps(p) ==
    /\ At(p, "verify_otp", "save_otps")
    /\ LET mine == Del(procs[p].otps, procs[p].email) IN
       /\ otps_file' = save_data(mine)
       /\ procs' = [procs EXCEPT ![p] = Respond(p, 200)]
    /\ UNCHANGED <<users_file, now, nops, next_id, issued, last>>

\* delete_user, lines 456-459
delete_user_load_users(p) ==
    /\ At(p, "delete_user", "load_users")
    /\ IF ~Has(users, procs[p].email)
       THEN Local(p, Respond(p, 404))
       ELSE Local(p, [procs[p] EXCEPT !.pc = "save_users", !.users = users])

\* delete_user, lines 461-466
delete_user_save_users(p) ==
    /\ At(p, "delete_user", "save_users")
    /\ LET mine == Del(procs[p].users, procs[p].email) IN
       /\ users_file' = save_data(mine)
       /\ procs' = [procs EXCEPT ![p] = Respond(p, 200)]
    /\ UNCHANGED <<otps_file, now, nops, next_id, issued, last>>

\* the worker dies where it stands: what it wrote stays, the rest never
\* happens; a request that dies before its first write leaves no trace
Crash(p) ==
    /\ Working(p)
    /\ IF procs[p].pc = "save_otps"
       THEN Local(p, [procs[p] EXCEPT !.crashed = TRUE,
                                      !.users = EmptyStore, !.otps = EmptyStore])
       ELSE Local(p, [Idle EXCEPT !.crashed = TRUE])

NextConc ==
    \/ \E p \in Procs : StartSignup(p)
    \/ \E p \in Procs : StartVerifyOtp(p)
    \/ \E p \in Procs : StartDeleteUser(p)
    \/ \E p \in Procs : signup_load_users(p)
    \/ \E p \in Procs : signup_load_otps(p)
    \/ \E p \in Procs : signup_save_users(p)
    \/ \E p \in Procs : signup_save_otps(p)
    \/ \E p \in Procs : verify_otp_load_otps(p)
    \/ \E p \in Procs : verify_otp_load_users(p)
    \/ \E p \in Procs : verify_otp_save_users(p)
    \/ \E p \in Procs : verify_otp_save_otps(p)
    \/ \E p \in Procs : delete_user_load_users(p)
    \/ \E p \in Procs : delete_user_save_users(p)
    \/ \E p \in Procs : Crash(p)

SpecConc == Init /\ [][NextConc]_vars

TypeOKConc ==
    /\ \A p \in Procs :
         /\ procs[p].pc \in {"idle", "load_users", "load_otps", "save_users",
                             "save_otps", "done"}
         /\ procs[p].op \in {"none", "signup", "verify_otp", "delete_user"}
         /\ procs[p].status \in {0, 200, 400, 404}
         /\ DOMAIN procs[p].users \subseteq Emails
         /\ DOMAIN procs[p].otps \subseteq Emails
    /\ users_file.ok /\ otps_file.ok
    /\ nops \in 0..MaxRequests

\* worker p leaves the step in which it writes users.json
SavesUsers(p) ==
    /\ procs[p].pc = "save_users"
    /\ procs'[p].pc # "save_users"
    /\ ~procs'[p].crashed
    /\ procs[p].op = "verify_otp" => Has(procs[p].users, procs[p].email)

\* C15: a handler writes to users.json the mapping it loaded, changed at its
\* own email only: the record of any other email is after the write what it
\* was when the handler loaded, whatever another request saved in between,
\* and the handler still answers 200.
C15_LastWriterWins ==
    [][\A p \in Procs :
         /\ SavesUsers(p)
            => /\ users_file'.ok
               /\ \A e \in Emails \ {procs[p].email} :
                    /\ Has(users', e) <=> Has(procs[p].users, e)
                    /\ Has(users', e) => users'[e] = procs[p].users[e]
         /\ (procs[p].pc \in {"save_users", "save_otps"} /\ procs'[p].pc = "done")
            => procs'[p].status = 200]_vars

\* two signups for different emails both answered 200 and the record of one
\* of them is not in users.json
C15_Witness ==
    /\ \A p \in Procs :
         /\ procs[p].op = "signup"
         /\ procs[p].pc = "done"
         /\ procs[p].status = 200
    /\ procs[1].email # procs[2].email
    /\ Has(users, procs[2].email)
    /\ ~Has(users, procs[1].email)

\* C16: signup and verify_otp write users.json and otps.json in two steps,
\* users.json first; a worker that dies in between writes nothing more, and
\* verify_otp accepts the stored code without looking at the verified flag.
C16_TwoWritesUsersFirst ==
    [][/\ users_file' = users_file \/ otps_file' = otps_file
       /\ \A p \in Procs :
            /\ (procs'[p].pc = "save_otps" /\ procs[p].pc # "save_otps")
               => /\ procs[p].pc = "save_users"
                  /\ procs[p].op \in {"signup", "verify_otp"}
                  /\ otps_file' = otps_file
            /\ procs[p].crashed => procs'[p] = procs[p]
            /\ (procs'[p].crashed /\ ~procs[p].crashed)
               => UNCHANGED <<users_file, otps_file>>
            /\ (/\ At(p, "verify_otp", "load_otps")
                /\ procs'[p] # procs[p]
                /\ ~procs'[p].crashed
                /\ Has(otps, procs[p].email)
                /\ otps[procs[p].email].otp = procs[p].otp)
               => procs'[p].pc = "load_users"
       /\ users_file' # users_file
          => \E p \in Procs : procs[p].pc = "save_users" /\ procs'[p].pc # "save_users"
       /\ otps_file' # otps_file
          => \E p \in Procs : procs[p].pc = "save_otps" /\ procs'[p].pc = "done"]_vars

\* a verify_otp died between its two writes: the record is verified, and
\* another verify_otp with the same code answered 200
C16_Witness ==
    \E p, q \in Procs :
         /\ procs[p].crashed
         /\ procs[p].op = "verify_otp"
         /\ procs[p].pc = "save_otps"
         /\ procs[q].op = "verify_otp"
         /\ procs[q].pc = "done"
         /\ procs[q].status = 200
         /\ procs[q].email = procs[p].email
         /\ procs[q].otp = procs[p].otp
         /\ Has(users, procs[p].email)
         /\ users[procs[p].email].verified

\* C21: a signup never replaces a verified record: when a signup writes
\* users.json while the record of its email is verified there, the record is
\* after the write what it was before, verified and with the same password
\* and id.
C21_SignupKeepsVerified ==
    [][\A p \in Procs :
         (/\ procs[p].op = "signup"
          /\ SavesUsers(p)
          /\ Has(users, procs[p].email)
          /\ users[procs[p].email].verified)
         => /\ Has(users', procs[p].email)
            /\ users'[procs[p].email] = users[procs[p].email]]_vars
====
